---- MODULE Spec2Model ----
(***************************************************************************)
(* Transfer orchestration core of vscode-azurestorage:                     *)
(*   uploadFiles -> azCopyBlobTransfer / azCopyFileTransfer                *)
(*               -> azCopyTransfer -> validateAzCopyInstalled              *)
(*                                 -> startAndWaitForCopy                  *)
(* One action is one synchronous segment of the async call chain: from the *)
(* resumption of an await to the next await.  The copy engine, the clock,  *)
(* the operator and the cancellation token are the environment.            *)
(***************************************************************************)
EXTENDS Integers, Sequences, FiniteSets, TLC

\* ------------------------------------------------------------------ bounds
\* Largest number of status fetches the poller is followed through.
MaxPolls == 3

\* Units of work (files of the directory) the progress tracker is built for.
TotalWork == 2

\* Units of new progress after which the tracker writes another log line.
LogEveryUnits == 1

\* Longest folder path given to the descriptor constructors.
MaxPathLen == 3

\* --------------------------------------------------------------- constants
\* setTimeout(resolve, 1000)
PollIntervalMs == 1000

\* ------------------------------------------------------- JavaScript values
Undef == [t |-> "undefined"]

Num(n) == [t |-> "number", v |-> n]

Str(s) == [t |-> "string", v |-> s]

\* ToBoolean of the values that occur here.
Truthy(x) ==
    CASE x.t = "undefined" -> FALSE
      [] x.t = "number" -> x.v /= 0
      [] x.t = "string" -> x.v /= ""
      [] OTHER -> TRUE

\* a && b
JsAnd(a, b) == IF Truthy(a) THEN b ELSE a

\* a || b
JsOr(a, b) == IF Truthy(a) THEN a ELSE b

\* ---------------------------------------------------------- engine values
\* TransferStatus of the copy engine, as getJobInfo(..).latestStatus yields it.
Status(st, js, em, tc, bow) ==
    [t |-> "object", StatusType |-> st, JobStatus |-> js, ErrorMsg |-> em,
     TransfersCompleted |-> tc, BytesOverWire |-> bow]

StatusTypes == {"Progress", "EndOfJob"}

CompletedCounts == {Undef, Num(0), Num(2)}

ByteCounts == {Undef, Num(0), Num(5)}

\* Statuses seen while the job runs: every combination of the two counters.
PollStatuses ==
    {Status(st, IF st = "EndOfJob" THEN "Completed" ELSE "InProgress", Undef, tc, bow) :
        st \in StatusTypes, tc \in CompletedCounts, bow \in ByteCounts}

\* Terminal statuses: every outcome, with and without an error message.
FinalOutcomes ==
    {<<"Completed", Undef>>, <<"Completed", Str("skipped 1 file")>>,
     <<"Failed", Undef>>, <<"Failed", Str("")>>, <<"Failed", Str("disk full")>>,
     <<"Cancelled", Undef>>}

FinalStatuses ==
    {Status("EndOfJob", o[1], o[2], Num(2), Num(5)) : o \in FinalOutcomes}

\* What one getJobInfo call can resolve to in latestStatus.
EngineStatuses == PollStatuses \cup FinalStatuses \cup {Undef}

\* Job handles the engine hands out.
JobIds == {"job-1", "job-2"}

\* ------------------------------------------------------------ completions
Pending == [t |-> "pending"]

Return(v) == [t |-> "return", value |-> v]

Throw(e) == [t |-> "throw", err |-> e]

Void == Undef

\* A local that has not been assigned yet.
Unassigned == [t |-> "unassigned"]

\* The error the cancellation check raises.
CancelError == [name |-> "UserCancelledError", message |-> "Operation cancelled."]

\* A rejection of an engine call (copy or getJobInfo).
EngineError == [name |-> "Error", message |-> "azcopy call failed"]

\* The error of an operator prompt that is dismissed, or of openUrl.
UiError == [name |-> "Error", message |-> "ui call failed"]

VARIABLES
    pc,                  \* where the call chain is suspended
    call,                \* arguments of the entry point that was called
    canceled,            \* cancellationToken.isCancellationRequested
    timerLeft,           \* ms left on the poller's timer, -1 when none is armed
    sinceFetch,          \* ms since the poller's last fetch completed (saturating)
    jobId,               \* startAndWaitForCopy: jobId
    status,              \* startAndWaitForCopy: status
    finishedWork,        \* startAndWaitForCopy: finishedWork
    finalTransferStatus, \* azCopyTransfer: finalTransferStatus
    pollerResult,        \* completion of startAndWaitForCopy
    facadeResult,        \* completion of azCopyTransfer
    entryResult,         \* completion of the entry point
    submissions,         \* engine: the copy calls received, their options
    issuedHandle,        \* engine: the handle the submission resolved to
    fetchHandles,        \* engine: the handles getJobInfo was called with
    outstanding,         \* engine: getJobInfo calls in flight
    nPollFetch,          \* getJobInfo calls started by the poller
    nFinalFetch,         \* getJobInfo calls started by azCopyTransfer
    firstEnd,            \* index of the first poller fetch answered 'EndOfJob', 0 if none
    nChecks,             \* calls of throwIfCanceled
    checkFailedAt,       \* index of the check that threw, 0 if none
    asyncRejectedAt,     \* index of the first check whose returned promise rejected, 0 if none
    uf,                  \* the uploadFile command: where it is suspended, its locals, its calls
    logReports,          \* values passed to transferProgress.reportToOutputWindow (last, count)
    notifReports,        \* values passed to transferProgress.reportToNotification (last, count)
    nSleep,              \* waits started
    nSleepDone,          \* waits completed
    nPrompts,            \* ext.ui.showWarningMessage calls
    urlOpened,           \* openUrl resolved
    probed,              \* outcome of the version probe: "none", "ok" or "failed"
    answer,              \* how the download prompt settled: "none", "download", "undefined", "throws"
    logLines,            \* 'Uploaded to ...' lines appended to the output channel
    locs,                \* the folders given to uploadFiles and the descriptors built from them
    tracker,             \* the TransferProgress instance: what each sink has received
    cycleCalls,          \* the calls the last poll cycle made after its fetch, in order
    engineFailures       \* engine calls (copy, getJobInfo) that were rejected

vars ==
    <<pc, call, canceled, timerLeft, sinceFetch, jobId, status, finishedWork,
      finalTransferStatus, pollerResult, facadeResult, entryResult, submissions,
      issuedHandle, fetchHandles, outstanding, nPollFetch, nFinalFetch, firstEnd,
      nChecks, checkFailedAt, asyncRejectedAt, uf, logReports, notifReports, nSleep, nSleepDone,
      nPrompts, urlOpened, probed, answer, logLines, locs, tracker, cycleCalls,
      engineFailures>>

clockVars == <<timerLeft, sinceFetch>>

localVars == <<jobId, status, finishedWork, finalTransferStatus>>

resultVars == <<pollerResult, facadeResult, entryResult, logLines>>

engineVars ==
    <<submissions, issuedHandle, fetchHandles, outstanding, nPollFetch, nFinalFetch,
      firstEnd, engineFailures>>

checkVars == <<nChecks, checkFailedAt, asyncRejectedAt>>

reportVars == <<logReports, notifReports, nSleep, tracker, cycleCalls>>

uiVars == <<nPrompts, urlOpened, probed, answer>>

NoCall == [entry |-> "none", fromTo |-> "none", useWildCard |-> FALSE,
           hasNotif |-> FALSE, hasCheck |-> FALSE, asyncCheck |-> FALSE]

NoReports == [last |-> -1, count |-> 0]

NoLocs == [dest |-> "none", sourceFolder |-> "", destFolder |-> "", src |-> Undef, dst |-> Undef]

\* uploadFile has not been invoked.
NoUpload ==
    [pc |-> "idle", treeItem |-> "none", localFilePath |-> "", remoteFilePath |-> Undef,
     calls |-> <<>>, uploadFailed |-> FALSE, result |-> Pending]

\* new TransferProgress(totalWork)
NewTracker(totalWork) ==
    [total |-> totalWork, logLast |-> 0, logEmits |-> 0,
     notifLast |-> 0, notifSum |-> 0, notifEmits |-> 0]

\* The state before the entry point is called, the tracker built for totalWork units.
InitWith(totalWork) ==
    /\ locs = NoLocs
    /\ tracker = NewTracker(totalWork)
    /\ cycleCalls = <<>>
    /\ engineFailures = 0
    /\ pc = "idle"
    /\ call = NoCall
    /\ canceled = FALSE
    /\ timerLeft = -1
    /\ sinceFetch = 0
    /\ jobId = ""
    /\ status = Undef
    /\ finishedWork = Undef
    /\ finalTransferStatus = Unassigned
    /\ pollerResult = Pending
    /\ facadeResult = Pending
    /\ entryResult = Pending
    /\ submissions = <<>>
    /\ issuedHandle = ""
    /\ fetchHandles = {}
    /\ outstanding = 0
    /\ nPollFetch = 0
    /\ nFinalFetch = 0
    /\ firstEnd = 0
    /\ nChecks = 0
    /\ checkFailedAt = 0
    /\ asyncRejectedAt = 0
    /\ uf = NoUpload
    /\ logReports = NoReports
    /\ notifReports = NoReports
    /\ nSleep = 0
    /\ nSleepDone = 0
    /\ nPrompts = 0
    /\ urlOpened = FALSE
    /\ probed = "none"
    /\ answer = "none"
    /\ logLines = 0

Init == InitWith(TotalWork)


\* ----------------------------------------------------- location descriptors
\* path.sep
Sep == "/"

\* String.prototype.endsWith
EndsWith(s, suffix) ==
    /\ Len(s) >= Len(suffix)
    /\ SubSeq(s, Len(s) - Len(suffix) + 1, Len(s)) = suffix

\* s[0] : the first character, undefined for the empty string.
FirstChar(s) == IF Len(s) >= 1 THEN Str(SubSeq(s, 1, 1)) ELSE Undef

\* The glob suffix of the current and of the older directory source.
GlobSuffix == ".*"

LegacyGlobSuffix == "*"

\* createAzCopyLocalSource(sourcePath)
createAzCopyLocalSource(sourcePath) ==
    [type |-> "Local", path |-> sourcePath, useWildCard |-> FALSE]

\* Mutant: the separator is always appended.
DirectoryGlobAlwaysSep(sourceDirectoryPath, suffix) ==
    sourceDirectoryPath \o Sep \o suffix

\* sourceDirectoryPath.endsWith(sep) ? `${p}<suffix>` : `${p}${sep}<suffix>`
DirectoryGlob(sourceDirectoryPath, suffix) ==
    IF EndsWith(sourceDirectoryPath, Sep)
    THEN sourceDirectoryPath \o suffix
    ELSE sourceDirectoryPath \o Sep \o suffix

\* createAzCopyLocalDirectorySource(sourceDirectoryPath)
createAzCopyLocalDirectorySource(sourceDirectoryPath) ==
    [type |-> "Local", path |-> DirectoryGlob(sourceDirectoryPath, GlobSuffix),
     useWildCard |-> TRUE]

\* createAzCopyLocalDirectorySource of the older variant.
LegacyCreateAzCopyLocalDirectorySource(sourceDirectoryPath) ==
    [type |-> "Local", path |-> DirectoryGlob(sourceDirectoryPath, LegacyGlobSuffix),
     useWildCard |-> TRUE]

\* Mutant: the leading slash is always prepended.
DestinationPathAlwaysSlash(destinationPath) == "/" \o destinationPath

\* destinationPath[0] === '/' ? destinationPath : `/${destinationPath}`
DestinationPath(destinationPath) ==
    IF FirstChar(destinationPath) = Str("/")
    THEN destinationPath
    ELSE "/" \o destinationPath

\* The resource a destination tree item stands for.
ResourceUri(dest) ==
    IF dest = "BlobContainer" THEN "https://acct.blob/container" ELSE "https://acct.file/share"

\* createAzCopyDestination(treeItem, destinationPath)
createAzCopyDestination(dest, destinationPath) ==
    [type |-> "RemoteSas", resourceUri |-> ResourceUri(dest),
     path |-> DestinationPath(destinationPath), useWildCard |-> FALSE]

\* createAzCopyDestination(root, containerName, destinationPath) of the older
\* variant: always a container url, the name empty for anything else.
LegacyCreateAzCopyDestination(dest, destinationPath) ==
    [type |-> "RemoteSas",
     resourceUri |-> IF dest = "BlobContainer" THEN "https://acct.blob/container"
                     ELSE "https://acct.blob/",
     path |-> DestinationPath(destinationPath), useWildCard |-> FALSE]

\* ------------------------------------------------------- progress tracker
\* transferProgress.reportToOutputWindow(finishedWork): a log line when enough
\* new progress has accumulated or the total is reached, never on a lower value.
ReportToOutputWindow(tr, v) ==
    IF v > tr.logLast /\ (v - tr.logLast >= LogEveryUnits \/ v >= tr.total)
    THEN [tr EXCEPT !.logLast = v, !.logEmits = @ + 1]
    ELSE tr

\* Mutant: the notification sink receives the value itself.
ReportToNotificationAbsolute(tr, v) ==
    [tr EXCEPT !.notifLast = v, !.notifSum = @ + v, !.notifEmits = @ + 1]

\* transferProgress.reportToNotification(finishedWork, notificationProgress): the
\* increment since the last value passed to this sink, nothing on a lower value.
ReportToNotification(tr, v) ==
    IF v > tr.notifLast
    THEN [tr EXCEPT !.notifLast = v, !.notifSum = @ + (v - tr.notifLast),
                    !.notifEmits = @ + 1]
    ELSE tr

\* ------------------------------------------------------------ pure parts
\* uploadFiles builds its source with createAzCopyLocalDirectorySource: a wildcard source.
DirectorySourceUseWildCard == TRUE

\* The direction each exported entry point passes to azCopyTransfer.
FromToOf(entry, dest) ==
    CASE entry = "azCopyBlobTransfer" -> "LocalBlob"
      [] entry = "azCopyFileTransfer" -> "LocalFile"
      [] OTHER -> IF dest = "BlobContainer" THEN "LocalBlob" ELSE "LocalFile"

\* const copyOptions = { fromTo, overwriteExisting: "true", recursive: true, ... }
CopyOptions(fromTo) ==
    [fromTo |-> fromTo, overwriteExisting |-> "true", recursive |-> TRUE,
     followSymLinks |-> TRUE, excludePath |-> ".git;.vscode"]

\* const copyOptions of the older azCopyTransfer: always 'LocalBlob', no excludePath.
LegacyCopyOptions ==
    [fromTo |-> "LocalBlob", overwriteExisting |-> "true", recursive |-> TRUE,
     followSymLinks |-> TRUE]

\* The entry points that are uploadFiles, of the current and of the older variant.
UploadEntries == {"uploadFiles", "uploadFilesLegacy"}

\* Mutant: a failed callback counts as an installed engine (|| true).
ValidateAzCopyInstalledOrTrue(cb) == IF cb.t = "throw" THEN TRUE ELSE cb.value

\* callWithTelemetryAndErrorHandling(...) || false : a callback that throws yields
\* undefined, which the || turns into false.
ValidateAzCopyInstalled(cb) == IF cb.t = "throw" THEN FALSE ELSE cb.value

\* Mutant: the loop ends as soon as any status is present.
LoopCondAnyStatus(s) == ~Truthy(s)

\* Mutant: the loop is entered only with a status in hand (status && ...).
LoopCondNeedsStatus(s) == Truthy(s) /\ s.StatusType /= "EndOfJob"

\* Mutant: the loop tests the outcome field, which never holds 'EndOfJob'.
LoopCondJobStatus(s) == ~Truthy(s) \/ s.JobStatus /= "EndOfJob"

\* while (!status || status.StatusType !== 'EndOfJob')
LoopCond(s) == ~Truthy(s) \/ s.StatusType /= "EndOfJob"

\* Mutant: the supplied check is never invoked.
ShouldCheckNever(supplied) == FALSE

\* if (!!throwIfCanceled)
ShouldCheck(supplied) == supplied

\* throwIfCanceled(cancellationToken, properties, "uploadFiles")
ThrowIfCanceled(isCancellationRequested) ==
    IF isCancellationRequested THEN Throw(CancelError) ELSE Return(Void)

\* A promise that has settled with the completion c.
Promise(c) == [t |-> "promise", settled |-> c]

\* Whether a completion is the return of a promise that rejects.
RejectedPromise(c) ==
    c.t = "return" /\ c.value.t = "promise" /\ c.value.settled.t = "throw"

\* throwIfCanceled(); : a synchronous check throws into the poller; an async one
\* returns its promise, which the statement drops without awaiting it.
InvokeCheck(isAsync, isCancellationRequested) ==
    IF isAsync
    THEN Return(Promise(ThrowIfCanceled(isCancellationRequested)))
    ELSE ThrowIfCanceled(isCancellationRequested)

\* Mutant: the poller catches what the check threw and throws an error of its own.
PollerRejectionWrapped(thrown) ==
    Throw([name |-> "Error", message |-> "Copy canceled: " \o thrown.err.message])

\* The check throws synchronously inside the async function: the promise of
\* startAndWaitForCopy rejects with the thrown value.
PollerRejection(thrown) == thrown

\* Mutant: the two counters are swapped.
FinishedWorkSwapped(s, useWildCard) ==
    LET selected == IF useWildCard THEN s.BytesOverWire ELSE s.TransfersCompleted
    IN  JsOr(JsAnd(s, selected), Num(0))

\* status && (src.useWildCard ? status.TransfersCompleted : status.BytesOverWire) || 0
FinishedWork(s, useWildCard) ==
    LET selected == IF useWildCard THEN s.TransfersCompleted ELSE s.BytesOverWire
    IN  JsOr(JsAnd(s, selected), Num(0))

\* Mutant: the notification sink is served before the log.
PollCycleCallsNotifFirst(hasNotif) ==
    (IF hasNotif THEN <<"reportToNotification">> ELSE <<>>)
        \o <<"reportToOutputWindow", "setTimeout">>

\* Mutant: the notification sink is used whether or not one was supplied.
PollCycleCallsAlwaysNotif(hasNotif) ==
    <<"reportToOutputWindow", "reportToNotification", "setTimeout">>

\* The calls of one cycle after its fetch: reportToOutputWindow, then
\* reportToNotification if (!!notificationProgress), then the wait.
PollCycleCalls(hasNotif) ==
    <<"reportToOutputWindow">>
        \o (IF hasNotif THEN <<"reportToNotification">> ELSE <<>>)
        \o <<"setTimeout">>

\* The tracker after the report calls of one cycle.
ReportProgress(tr, v, hasNotif) ==
    LET logged == ReportToOutputWindow(tr, v)
    IN  IF hasNotif THEN ReportToNotification(logged, v) ELSE logged

\* Mutant: the delay is taken in seconds where the timer counts milliseconds.
SleepDelaySeconds == PollIntervalMs \div 1000

\* setTimeout(resolve, 1000)
SleepDelay == PollIntervalMs

\* Mutant: only an absent final status counts as a failure.
TransferFailedOnlyAbsent(final) == ~Truthy(final)

\* !finalTransferStatus || finalTransferStatus.JobStatus === 'Failed'
TransferFailed(final) == ~Truthy(final) \/ final.JobStatus = "Failed"

\* finalTransferStatus?.ErrorMsg
OptErrorMsg(final) == IF final.t = "undefined" THEN Undef ELSE final.ErrorMsg

\* `AzCopy Transfer Failed${finalTransferStatus?.ErrorMsg ? `: ${finalTransferStatus.ErrorMsg}` : ''}`
FailureMessage(final) ==
    "AzCopy Transfer Failed" \o
        (IF Truthy(OptErrorMsg(final)) THEN ": " \o final.ErrorMsg.v ELSE "")

\* The outcome classification of azCopyTransfer.
Classify(final) ==
    IF TransferFailed(final)
    THEN Throw([name |-> "Error", message |-> FailureMessage(final)])
    ELSE Return(Void)

\* Mutant: the entry point catches and drops what the transfer threw.
EntryCompletionSwallow(r) == Return(Void)

\* azCopyBlobTransfer / azCopyFileTransfer / uploadFiles await the call below them
\* without a handler: a rejection passes through, a fulfilment becomes void.
EntryCompletion(r) == IF r.t = "throw" THEN r ELSE Return(Void)

\* ------------------------------------------------------------ continuations
\* Mutant: azCopyTransfer catches whatever was thrown below it and resolves.
FacadeSettleCaught(r) ==
    /\ facadeResult' = Return(Void)
    /\ entryResult' = EntryCompletion(Return(Void))
    /\ logLines' = IF call.entry \in UploadEntries THEN logLines + 1 ELSE logLines

\* azCopyTransfer settles with r; the entry point above it settles in the same
\* turn, and uploadFiles appends its completion line when nothing was thrown.
FacadeSettle(r) ==
    /\ facadeResult' = r
    /\ entryResult' = EntryCompletion(r)
    /\ logLines' = IF call.entry \in UploadEntries /\ EntryCompletion(r).t = "return"
                   THEN logLines + 1 ELSE logLines

\* Mutant: the fetch uses the poller's local as it was before the submission resolved.
StartFetchStaleHandle(h, byPoller) ==
    /\ fetchHandles' = fetchHandles \cup {jobId}
    /\ outstanding' = outstanding + 1
    /\ nPollFetch' = IF byPoller THEN nPollFetch + 1 ELSE nPollFetch
    /\ nFinalFetch' = IF byPoller THEN nFinalFetch ELSE nFinalFetch + 1

\* copyClient.getJobInfo(h) is called.
StartFetch(h, byPoller) ==
    /\ fetchHandles' = fetchHandles \cup {h}
    /\ outstanding' = outstanding + 1
    /\ nPollFetch' = IF byPoller THEN nPollFetch + 1 ELSE nPollFetch
    /\ nFinalFetch' = IF byPoller THEN nFinalFetch ELSE nFinalFetch + 1

\* Mutant: azCopyTransfer catches what the check threw and still fetches the
\* final status before it rethrows.
BeginCycleFetchAfterCancel(h) ==
    IF LoopCond(status)
    THEN LET checked == ShouldCheck(call.hasCheck)
             chk == IF checked THEN InvokeCheck(call.asyncCheck, canceled) ELSE Return(Void)
         IN  /\ nChecks' = IF checked THEN nChecks + 1 ELSE nChecks
             /\ asyncRejectedAt' = IF asyncRejectedAt = 0 /\ RejectedPromise(chk)
                                   THEN nChecks + 1 ELSE asyncRejectedAt
             /\ IF chk.t = "throw"
                THEN /\ checkFailedAt' = nChecks + 1
                     /\ pollerResult' = PollerRejection(chk)
                     /\ StartFetch(h, FALSE)
                     /\ pc' = "finalFetch"
                     /\ UNCHANGED <<facadeResult, entryResult, logLines>>
                ELSE /\ StartFetch(h, TRUE)
                     /\ pc' = "fetch"
                     /\ UNCHANGED <<checkFailedAt, resultVars>>
    ELSE /\ pollerResult' = Return(h)
         /\ StartFetch(h, FALSE)
         /\ pc' = "finalFetch"
         /\ UNCHANGED <<checkVars, facadeResult, entryResult, logLines>>

\* From the loop test of startAndWaitForCopy to the next await: the cancellation
\* check and the start of the status fetch, or the return of the handle followed
\* by the final fetch of azCopyTransfer.
BeginCycle(h) ==
    IF LoopCond(status)
    THEN LET checked == ShouldCheck(call.hasCheck)
             chk == IF checked THEN InvokeCheck(call.asyncCheck, canceled) ELSE Return(Void)
         IN  /\ nChecks' = IF checked THEN nChecks + 1 ELSE nChecks
             /\ asyncRejectedAt' = IF asyncRejectedAt = 0 /\ RejectedPromise(chk)
                                   THEN nChecks + 1 ELSE asyncRejectedAt
             /\ IF chk.t = "throw"
                THEN /\ checkFailedAt' = nChecks + 1
                     /\ pollerResult' = PollerRejection(chk)
                     /\ FacadeSettle(PollerRejection(chk))
                     /\ pc' = "done"
                     /\ UNCHANGED <<fetchHandles, outstanding, nPollFetch, nFinalFetch>>
                ELSE /\ StartFetch(h, TRUE)
                     /\ pc' = "fetch"
                     /\ UNCHANGED <<checkFailedAt, resultVars>>
    ELSE /\ pollerResult' = Return(h)
         /\ StartFetch(h, FALSE)
         /\ pc' = "finalFetch"
         /\ UNCHANGED <<checkVars, facadeResult, entryResult, logLines>>

\* const copyOptions = ...; startAndWaitForCopy(...): copyClient.copy(src, dst, options)
StartCopy ==
    /\ submissions' =
           Append(submissions,
                  [src |-> locs.src, dst |-> locs.dst,
                   options |-> IF call.entry = "uploadFilesLegacy"
                               THEN LegacyCopyOptions
                               ELSE CopyOptions(call.fromTo)])
    /\ pc' = "copy"
    /\ UNCHANGED resultVars

\* if (await validateAzCopyInstalled()) { ... } : nothing else is done otherwise.
AfterValidate(installed) ==
    IF installed
    THEN StartCopy
    ELSE /\ FacadeSettle(Return(Void))
         /\ pc' = "done"
         /\ UNCHANGED <<pollerResult, submissions>>

\* ------------------------------------------------------------------ actions
\* uploadFiles(destTreeItem, ...) is called: the first await is the version probe.
CallUploadFiles(dest, sourceFolder, destFolder) ==
    /\ pc = "idle"
    /\ call' = [entry |-> "uploadFiles", fromTo |-> FromToOf("uploadFiles", dest),
                useWildCard |-> DirectorySourceUseWildCard,
                hasNotif |-> TRUE, hasCheck |-> TRUE, asyncCheck |-> FALSE]
    /\ locs' = [dest |-> dest, sourceFolder |-> sourceFolder, destFolder |-> destFolder,
                src |-> createAzCopyLocalDirectorySource(sourceFolder),
                dst |-> createAzCopyDestination(dest, destFolder)]
    /\ pc' = "probe"
    /\ UNCHANGED <<uf, canceled, clockVars, localVars, resultVars, engineVars, checkVars,
                   reportVars, nSleepDone, uiVars>>

\* uploadFiles of the older variant is called: it hands its descriptors to the
\* older azCopyTransfer directly.
CallLegacyUploadFiles(dest, sourceFolder, destFolder) ==
    /\ pc = "idle"
    /\ call' = [entry |-> "uploadFilesLegacy", fromTo |-> LegacyCopyOptions.fromTo,
                useWildCard |-> LegacyCreateAzCopyLocalDirectorySource(sourceFolder).useWildCard,
                hasNotif |-> TRUE, hasCheck |-> TRUE, asyncCheck |-> FALSE]
    /\ locs' = [dest |-> dest, sourceFolder |-> sourceFolder, destFolder |-> destFolder,
                src |-> LegacyCreateAzCopyLocalDirectorySource(sourceFolder),
                dst |-> LegacyCreateAzCopyDestination(dest, destFolder)]
    /\ pc' = "probe"
    /\ UNCHANGED <<uf, canceled, clockVars, localVars, resultVars, engineVars, checkVars,
                   reportVars, nSleepDone, uiVars>>

\* The destination each direct entry point is called for.
DestOf(entry) == IF entry = "azCopyBlobTransfer" THEN "BlobContainer" ELSE "FileShare"

\* azCopyBlobTransfer / azCopyFileTransfer is called by another caller, with or
\* without a notification sink and a cancellation check.
CallTransfer(entry, wild, notif, check) ==
    /\ pc = "idle"
    /\ call' = [entry |-> entry, fromTo |-> FromToOf(entry, "none"), useWildCard |-> wild,
                hasNotif |-> notif, hasCheck |-> check, asyncCheck |-> FALSE]
    /\ locs' = [dest |-> DestOf(entry), sourceFolder |-> "a", destFolder |-> "b",
                src |-> IF wild THEN createAzCopyLocalDirectorySource("a")
                        ELSE createAzCopyLocalSource("a"),
                dst |-> createAzCopyDestination(DestOf(entry), "b")]
    /\ pc' = "probe"
    /\ UNCHANGED <<uf, canceled, clockVars, localVars, resultVars, engineVars, checkVars,
                   reportVars, nSleepDone, uiVars>>

\* azCopyBlobTransfer / azCopyFileTransfer is called with a check that is an async
\* function: throwIfCanceled?: () => void accepts one.
CallTransferAsyncCheck(entry, wild, notif) ==
    /\ pc = "idle"
    /\ call' = [entry |-> entry, fromTo |-> FromToOf(entry, "none"), useWildCard |-> wild,
                hasNotif |-> notif, hasCheck |-> TRUE, asyncCheck |-> TRUE]
    /\ locs' = [dest |-> DestOf(entry), sourceFolder |-> "a", destFolder |-> "b",
                src |-> IF wild THEN createAzCopyLocalDirectorySource("a")
                        ELSE createAzCopyLocalSource("a"),
                dst |-> createAzCopyDestination(DestOf(entry), "b")]
    /\ pc' = "probe"
    /\ UNCHANGED <<uf, canceled, clockVars, localVars, resultVars, engineVars, checkVars,
                   reportVars, nSleepDone, uiVars>>

\* azCopyInstalled: executeCommand(.., '--version') settles.
ProbeDone(ok) ==
    /\ pc = "probe"
    /\ probed' = IF ok THEN "ok" ELSE "failed"
    /\ IF ok
       THEN /\ AfterValidate(ValidateAzCopyInstalled(Return(TRUE)))
            /\ UNCHANGED nPrompts
       ELSE /\ nPrompts' = nPrompts + 1
            /\ pc' = "prompt"
            /\ UNCHANGED <<resultVars, submissions>>
    /\ UNCHANGED <<urlOpened, answer, engineFailures>>
    /\ UNCHANGED <<call, locs, uf, canceled, clockVars, localVars, issuedHandle, fetchHandles,
                   outstanding, nPollFetch, nFinalFetch, firstEnd, checkVars,
                   reportVars, nSleepDone>>

\* ext.ui.showWarningMessage(message, { modal: true }, download) settles.
PromptDone(a) ==
    /\ pc = "prompt"
    /\ answer' = a
    /\ IF a = "download"
       THEN /\ pc' = "openUrl"
            /\ UNCHANGED <<resultVars, submissions>>
       ELSE /\ AfterValidate(ValidateAzCopyInstalled(
                    IF a = "throws" THEN Throw(UiError) ELSE Return(FALSE)))
    /\ UNCHANGED <<call, locs, uf, canceled, clockVars, localVars, issuedHandle, fetchHandles,
                   outstanding, nPollFetch, nFinalFetch, firstEnd, checkVars,
                   reportVars, nSleepDone, nPrompts, urlOpened, probed, engineFailures>>

\* openUrl(...) settles; on success the reminder is shown without being awaited.
OpenUrlDone(ok) ==
    /\ pc = "openUrl"
    /\ urlOpened' = ok
    /\ nPrompts' = IF ok THEN nPrompts + 1 ELSE nPrompts
    /\ AfterValidate(ValidateAzCopyInstalled(
           IF ok THEN Return(FALSE) ELSE Throw(UiError)))
    /\ UNCHANGED <<call, locs, uf, canceled, clockVars, localVars, issuedHandle, fetchHandles,
                   outstanding, nPollFetch, nFinalFetch, firstEnd, checkVars,
                   reportVars, nSleepDone, probed, answer, engineFailures>>

\* copyClient.copy(...) settles.
CopyDone(r) ==
    /\ pc = "copy"
    /\ IF r.t = "throw"
       THEN /\ engineFailures' = engineFailures + 1
            /\ pollerResult' = r
            /\ FacadeSettle(r)
            /\ pc' = "done"
            /\ UNCHANGED <<jobId, issuedHandle, fetchHandles, outstanding, nPollFetch,
                           nFinalFetch, checkVars>>
       ELSE /\ jobId' = r.value
            /\ issuedHandle' = r.value
            /\ BeginCycle(r.value)
            /\ UNCHANGED engineFailures
    /\ UNCHANGED <<call, locs, uf, canceled, clockVars, status, finishedWork, finalTransferStatus,
                   submissions, firstEnd, reportVars, nSleepDone, uiVars>>

\* copyClient.getJobInfo(jobId) of the poller settles: the status is stored, the
\* progress is reported and the timer is armed.
FetchDone(r) ==
    /\ pc = "fetch"
    /\ outstanding' = outstanding - 1
    /\ IF r.t = "throw"
       THEN /\ engineFailures' = engineFailures + 1
            /\ pollerResult' = r
            /\ FacadeSettle(r)
            /\ pc' = "done"
            /\ UNCHANGED <<clockVars, status, finishedWork, firstEnd, reportVars>>
       ELSE LET s == r.value
                work == FinishedWork(s, call.useWildCard)
            IN  /\ status' = s
                /\ finishedWork' = work
                /\ logReports' = [last |-> work.v, count |-> logReports.count + 1]
                /\ notifReports' =
                       IF call.hasNotif
                       THEN [last |-> work.v, count |-> notifReports.count + 1]
                       ELSE notifReports
                /\ tracker' = ReportProgress(tracker, work.v, call.hasNotif)
                /\ cycleCalls' = PollCycleCalls(call.hasNotif)
                /\ nSleep' = nSleep + 1
                /\ timerLeft' = SleepDelay
                /\ sinceFetch' = 0
                /\ firstEnd' = IF firstEnd = 0 /\ Truthy(s) /\ s.StatusType = "EndOfJob"
                               THEN nPollFetch ELSE firstEnd
                /\ pc' = "sleep"
                /\ UNCHANGED <<resultVars, engineFailures>>
    /\ UNCHANGED <<call, locs, uf, canceled, jobId, finalTransferStatus, submissions, issuedHandle,
                   fetchHandles, nPollFetch, nFinalFetch, checkVars, nSleepDone, uiVars>>

\* Time passes while the poller's timer is armed.
Tick(d) ==
    /\ pc = "sleep"
    /\ sinceFetch < 2 * PollIntervalMs
    /\ timerLeft' = IF timerLeft > d THEN timerLeft - d ELSE 0
    /\ sinceFetch' = IF sinceFetch + d < 2 * PollIntervalMs THEN sinceFetch + d
                     ELSE 2 * PollIntervalMs
    /\ UNCHANGED <<pc, call, locs, uf, canceled, localVars, resultVars, engineVars, checkVars,
                   reportVars, nSleepDone, uiVars>>

\* The timer fires and the loop test is evaluated again; the poller is followed
\* through at most `limit` fetches.
TimerFiredWithin(limit) ==
    /\ pc = "sleep"
    /\ timerLeft = 0
    /\ LoopCond(status) => nPollFetch < limit
    /\ timerLeft' = -1
    /\ nSleepDone' = nSleepDone + 1
    /\ BeginCycle(jobId)
    /\ UNCHANGED <<call, locs, uf, canceled, sinceFetch, localVars, submissions, issuedHandle,
                   firstEnd, reportVars, uiVars, engineFailures>>

TimerFired == TimerFiredWithin(MaxPolls)

\* copyClient.getJobInfo(jobId) of azCopyTransfer settles: the outcome is classified.
FinalFetchDone(r) ==
    /\ pc = "finalFetch"
    /\ outstanding' = outstanding - 1
    /\ IF r.t = "throw"
       THEN /\ engineFailures' = engineFailures + 1
            /\ FacadeSettle(r)
            /\ UNCHANGED finalTransferStatus
       ELSE /\ finalTransferStatus' = r.value
            /\ FacadeSettle(Classify(r.value))
            /\ UNCHANGED engineFailures
    /\ pc' = "done"
    /\ UNCHANGED <<call, locs, uf, canceled, clockVars, jobId, status, finishedWork, pollerResult,
                   submissions, issuedHandle, fetchHandles, nPollFetch, nFinalFetch,
                   firstEnd, checkVars, reportVars, nSleepDone, uiVars>>

\* The operator cancels: the token of the supplied check becomes cancelled.
Cancel ==
    /\ pc \notin {"idle", "done"}
    /\ call.hasCheck
    /\ ~canceled
    /\ canceled' = TRUE
    /\ UNCHANGED <<pc, call, locs, uf, clockVars, localVars, resultVars, engineVars, checkVars,
                   reportVars, nSleepDone, uiVars>>

FetchResults == {Return(s) : s \in EngineStatuses} \cup {Throw(EngineError)}

CopyResults == {Return(h) : h \in JobIds} \cup {Throw(EngineError)}

TickSteps == {PollIntervalMs \div 2, PollIntervalMs}

\* The tree items uploadFiles is called for.
DestKinds == {"BlobContainer", "FileShare"}

\* Source and destination folders: with and without the separator at the seam.
FolderPairs == {<<"a", "b">>, <<"a/", "/b">>}

Next ==
    \/ \E dest \in DestKinds, f \in FolderPairs : CallUploadFiles(dest, f[1], f[2])
    \/ \E dest \in DestKinds, f \in FolderPairs : CallLegacyUploadFiles(dest, f[1], f[2])
    \/ \E entry \in {"azCopyBlobTransfer", "azCopyFileTransfer"}, wild, notif, check \in BOOLEAN :
           CallTransfer(entry, wild, notif, check)
    \/ \E ok \in BOOLEAN : ProbeDone(ok)
    \/ \E a \in {"download", "undefined", "throws"} : PromptDone(a)
    \/ \E ok \in BOOLEAN : OpenUrlDone(ok)
    \/ \E r \in CopyResults : CopyDone(r)
    \/ \E r \in FetchResults : FetchDone(r)
    \/ \E d \in TickSteps : Tick(d)
    \/ TimerFired
    \/ \E r \in FetchResults : FinalFetchDone(r)
    \/ Cancel

Spec == Init /\ [][Next]_vars

\* ------------------------------------------------- the uploadFile command
\* A rejection of treeItem.uploadLocalFile.
UploadError == [name |-> "Error", message |-> "upload failed"]

\* A rejection of treeItem.createChild, of the existence check or of findTreeItem.
TreeError == [name |-> "Error", message |-> "tree call failed"]

\* uploadFile settles with r.
UfSettle(r) == uf' = [uf EXCEPT !.pc = "done", !.result = r]

\* await treeItem.createChild({ ...context, remoteFilePath, localFilePath }) is called.
UfStartCreateChild ==
    uf' = [uf EXCEPT !.pc = "createChild", !.calls = Append(@, "createChild")]

\* catch (err) { } : whatever the try block threw is dropped and control falls
\* through to the createChild call after the if.
UfCatch(err, uploadFailed) ==
    uf' = [uf EXCEPT !.pc = "createChild", !.calls = Append(@, "createChild"),
                     !.uploadFailed = uploadFailed]

UfRest ==
    <<pc, call, locs, canceled, clockVars, localVars, resultVars, engineVars, checkVars,
      reportVars, nSleepDone, uiVars>>

\* uploadFile(context, treeItem) is called: window.showOpenDialog is awaited.
UfCall(treeItem) ==
    /\ uf.pc = "idle"
    /\ uf' = [uf EXCEPT !.pc = "openDialog", !.treeItem = treeItem]
    /\ UNCHANGED UfRest

\* showOpenDialog settles: if (uris && uris.length) the name is asked for.
UfOpenDialogDone(uris) ==
    /\ uf.pc = "openDialog"
    /\ IF uris /= Undef /\ Len(uris.v) /= 0
       THEN uf' = [uf EXCEPT !.pc = "inputBox", !.localFilePath = uris.v[1]]
       ELSE UfSettle(Return(Void))
    /\ UNCHANGED UfRest

\* showInputBox settles: if (remoteFilePath) the existence check is awaited.
UfInputBoxDone(name) ==
    /\ uf.pc = "inputBox"
    /\ IF Truthy(name)
       THEN uf' = [uf EXCEPT !.pc = "exists", !.remoteFilePath = name]
       ELSE uf' = [uf EXCEPT !.pc = "done", !.remoteFilePath = name, !.result = Return(Void)]
    /\ UNCHANGED UfRest

\* doesBlobExist / doesFileExist settles.
UfExistsDone(r) ==
    /\ uf.pc = "exists"
    /\ IF r.t = "throw"
       THEN UfSettle(r)
       ELSE IF r.value
            THEN uf' = [uf EXCEPT !.pc = "confirm"]
            ELSE UfStartCreateChild
    /\ UNCHANGED UfRest

\* ext.ui.showWarningMessage(.., yes, cancel) settles: it resolves on 'Yes' and
\* rejects when the operator cancels; then findTreeItem is awaited inside the try.
UfConfirmDone(r) ==
    /\ uf.pc = "confirm"
    /\ IF r.t = "throw"
       THEN UfSettle(r)
       ELSE uf' = [uf EXCEPT !.pc = "findTreeItem"]
    /\ UNCHANGED UfRest

\* findTreeItem settles: if (result) shouldUseAzCopy is awaited for the argument.
UfFindDone(r) ==
    /\ uf.pc = "findTreeItem"
    /\ IF r.t = "throw"
       THEN UfCatch(r.err, FALSE)
       ELSE IF Truthy(r.value)
            THEN uf' = [uf EXCEPT !.pc = "shouldUseAzCopy"]
            ELSE UfStartCreateChild
    /\ UNCHANGED UfRest

\* shouldUseAzCopy settles: treeItem.uploadLocalFile(.., .., useAzCopy) is called.
UfShouldUseDone(r) ==
    /\ uf.pc = "shouldUseAzCopy"
    /\ IF r.t = "throw"
       THEN UfCatch(r.err, FALSE)
       ELSE uf' = [uf EXCEPT !.pc = "uploadLocalFile",
                             !.calls = Append(@, "uploadLocalFile")]
    /\ UNCHANGED UfRest

\* treeItem.uploadLocalFile settles: return, or the catch clause.
UfUploadDone(r) ==
    /\ uf.pc = "uploadLocalFile"
    /\ IF r.t = "throw"
       THEN UfCatch(r.err, TRUE)
       ELSE UfSettle(Return(Void))
    /\ UNCHANGED UfRest

\* treeItem.createChild settles.
UfCreateChildDone(r) ==
    /\ uf.pc = "createChild"
    /\ UfSettle(IF r.t = "throw" THEN r ELSE Return(Void))
    /\ UNCHANGED UfRest

\* The tree items the command is invoked on.
UfTreeItems == {"BlobContainer", "FileShare"}

\* What the file picker resolves to: dismissed, nothing selected, one file.
UfSelections ==
    {Undef, [t |-> "object", v |-> <<>>],
     [t |-> "object", v |-> <<"/home/u/a.txt">>], [t |-> "object", v |-> <<"/home/u/d/b.txt">>]}

\* What the input box resolves to: dismissed, empty, a name, a name in a folder.
UfNames == {Undef, Str(""), Str("a.txt"), Str("d/b.txt")}

UploadFileNext ==
    \/ \E treeItem \in UfTreeItems : UfCall(treeItem)
    \/ \E uris \in UfSelections : UfOpenDialogDone(uris)
    \/ \E name \in UfNames : UfInputBoxDone(name)
    \/ \E r \in {Return(TRUE), Return(FALSE), Throw(TreeError)} : UfExistsDone(r)
    \/ \E r \in {Return(Str("Yes")), Throw(CancelError)} : UfConfirmDone(r)
    \/ \E r \in {Return(Str("item")), Return(Undef), Throw(TreeError)} : UfFindDone(r)
    \/ \E r \in {Return(TRUE), Return(FALSE), Throw(UiError)} : UfShouldUseDone(r)
    \/ \E r \in {Return(Void), Throw(UploadError)} : UfUploadDone(r)
    \/ \E r \in {Return(Void), Throw(TreeError)} : UfCreateChildDone(r)

UploadFileSpec == Init /\ [][UploadFileNext]_vars

\* ------------------------------------------- the descriptor constructors alone
\* The characters folder paths are made of: a name character, the separator, the dot.
PathChars == {"a", Sep, "."}

RECURSIVE PathsOfLen(_)
PathsOfLen(n) ==
    IF n = 0 THEN {""} ELSE {p \o c : p \in PathsOfLen(n - 1), c \in PathChars}

\* Every folder path of at most MaxPathLen characters, the empty one included.
Paths == UNION {PathsOfLen(n) : n \in 0..MaxPathLen}

\* uploadFiles, of either variant, builds its two descriptors, each from any path
\* (the two constructors share nothing, so one path serves as both folders).
PathNext ==
    \/ \E dest \in DestKinds, p \in Paths : CallUploadFiles(dest, p, p)
    \/ \E dest \in DestKinds, p \in Paths : CallLegacyUploadFiles(dest, p, p)

PathSpec == Init /\ [][PathNext]_vars

\* ----------------------------------------- one scripted directory upload
\* What the engine answers to the successive getJobInfo calls of one job: the
\* completed counts 0, 3, 7, 10 of a directory of 10 files (and the bytes sent),
\* 'EndOfJob' with the last one.
E2EScript ==
    <<Status("Progress", "InProgress", Undef, Num(0), Num(0)),
      Status("Progress", "InProgress", Undef, Num(3), Num(30)),
      Status("Progress", "InProgress", Undef, Num(7), Num(70)),
      Status("EndOfJob", "Completed", Undef, Num(10), Num(100))>>

\* The answer to the n-th getJobInfo call: the engine keeps its last status.
E2EAnswer(n) == IF n <= Len(E2EScript) THEN E2EScript[n] ELSE E2EScript[Len(E2EScript)]

\* The number of files of the directory: new TransferProgress(uploadSize).
E2ETotal == E2EScript[Len(E2EScript)].TransfersCompleted.v

E2EInit == InitWith(E2ETotal)

\* uploadFiles with the engine installed and answering by the script.
E2ENext ==
    \/ \E dest \in DestKinds, f \in FolderPairs : CallUploadFiles(dest, f[1], f[2])
    \/ ProbeDone(TRUE)
    \/ \E h \in JobIds : CopyDone(Return(h))
    \/ FetchDone(Return(E2EAnswer(nPollFetch)))
    \/ \E d \in TickSteps : Tick(d)
    \/ TimerFiredWithin(Len(E2EScript))
    \/ FinalFetchDone(Return(E2EAnswer(nPollFetch + nFinalFetch)))

E2ESpec == E2EInit /\ [][E2ENext]_vars

\* --------------------------- an engine that answers and reaches 'EndOfJob'
\* A running job with no progress yet and with some, and the finished job.
LiveRunning ==
    {Undef,
     Status("Progress", "InProgress", Undef, Num(0), Num(0)),
     Status("Progress", "InProgress", Undef, Num(2), Num(5))}

LiveFinished == {Status("EndOfJob", "Completed", Undef, Num(2), Num(5))}

\* The answers to the n-th fetch of the poller: the job is finished by the
\* MaxPolls-th fetch at the latest, at any earlier one possibly.
LiveAnswers(n) == IF n < MaxPolls THEN LiveRunning \cup LiveFinished ELSE LiveFinished

\* What the engine and the clock do on their own: calls settle, time passes.
LiveProgress ==
    \/ ProbeDone(TRUE)
    \/ \E h \in JobIds : CopyDone(Return(h))
    \/ \E st \in LiveAnswers(nPollFetch) : FetchDone(Return(st))
    \/ \E d \in TickSteps : Tick(d)
    \/ TimerFired
    \/ \E st \in LiveFinished : FinalFetchDone(Return(st))

LiveCalls ==
    \/ \E dest \in DestKinds, f \in FolderPairs : CallUploadFiles(dest, f[1], f[2])
    \/ \E entry \in {"azCopyBlobTransfer", "azCopyFileTransfer"}, wild, notif, check \in BOOLEAN :
           CallTransfer(entry, wild, notif, check)

LiveNext == LiveCalls \/ LiveProgress \/ Cancel

\* Every engine call settles and the timer fires: the event loop runs whatever
\* is ready.  Nothing obliges the operator to cancel or a caller to call.
LiveSpec == Init /\ [][LiveNext]_vars /\ WF_vars(LiveProgress)

\* ------------------------------------------- a check that is an async function
\* A transfer whose cancellation check returns a promise, the engine installed.
AsyncCheckNext ==
    \/ \E entry \in {"azCopyBlobTransfer", "azCopyFileTransfer"}, wild, notif \in BOOLEAN :
           CallTransferAsyncCheck(entry, wild, notif)
    \/ ProbeDone(TRUE)
    \/ \E r \in CopyResults : CopyDone(r)
    \/ \E st \in LiveAnswers(nPollFetch) : FetchDone(Return(st))
    \/ \E d \in TickSteps : Tick(d)
    \/ TimerFired
    \/ \E st \in FinalStatuses : FinalFetchDone(Return(st))
    \/ Cancel

AsyncCheckSpec == Init /\ [][AsyncCheckNext]_vars


\* ================================================================= claims
\* msg contains sub as a substring.
Contains(msg, sub) ==
    \E i \in 1..(Len(msg) - Len(sub) + 1) : SubSeq(msg, i, i + Len(sub) - 1) = sub

\* C1: when the k-th status fetch is the first one answered 'EndOfJob', the poller
\* makes exactly k fetches, each fetch after the first starts only after a completed
\* wait, no cycle is started once 'EndOfJob' has been seen, and the poller returns
\* the handle the submission resolved to, and only then.
C1_PollsUntilEndOfJob ==
    /\ nPollFetch <= nSleepDone + 1
    /\ firstEnd /= 0 => nPollFetch = firstEnd
    /\ firstEnd /= 0 /\ pc /= "sleep" => pollerResult = Return(issuedHandle)
    /\ pollerResult.t = "return" =>
           /\ firstEnd >= 1
           /\ nPollFetch = firstEnd
           /\ nSleepDone = nPollFetch
           /\ pollerResult.value = issuedHandle
           /\ issuedHandle \in JobIds

\* C1 witness: 'EndOfJob' came on the third fetch and the poller returned the handle.
C1_Witness ==
    /\ firstEnd = 3
    /\ ~canceled
    /\ pollerResult = Return(issuedHandle)

\* C2: when the cancellation check fails on cycle j, the poller has made j checks
\* and j-1 fetches, has started no other fetch, report or wait, and is rejected
\* with the very error the check raised.
C2_CancelStopsPoller ==
    checkFailedAt /= 0 =>
        /\ nChecks = checkFailedAt
        /\ nPollFetch = checkFailedAt - 1
        /\ nFinalFetch = 0
        /\ outstanding = 0
        /\ logReports.count = checkFailedAt - 1
        /\ nSleep = checkFailedAt - 1
        /\ timerLeft = -1
        /\ firstEnd = 0
        /\ pollerResult = ThrowIfCanceled(TRUE)
        /\ pollerResult.err = CancelError
        /\ pc = "done"

\* C2 witness: the check failed on the second cycle, after one fetch.
C2_Witness ==
    /\ checkFailedAt = 2
    /\ nPollFetch = 1
    /\ pollerResult.t = "throw"

\* C3: once the final status has been fetched, azCopyTransfer throws a transfer
\* failure exactly when that status is absent or its JobStatus is 'Failed'; the
\* message contains the engine's ErrorMsg when there is one and is the generic
\* message when there is none; otherwise azCopyTransfer returns nothing.
C3_OutcomeClassification ==
    finalTransferStatus /= Unassigned =>
        LET final == finalTransferStatus
            failed == final = Undef \/ (final /= Undef /\ final.JobStatus = "Failed")
            hasMsg == final /= Undef /\ final.ErrorMsg /= Undef
        IN  /\ pc = "done"
            /\ failed <=> facadeResult.t = "throw"
            /\ failed => /\ facadeResult.err.name = "Error"
                         /\ Contains(facadeResult.err.message, "AzCopy Transfer Failed")
            /\ failed /\ hasMsg => Contains(facadeResult.err.message, final.ErrorMsg.v)
            /\ failed /\ ~hasMsg => facadeResult.err.message = "AzCopy Transfer Failed"
            /\ ~failed => facadeResult = Return(Void)

\* C3 witness: the final status is 'Failed' with an error message, and azCopyTransfer threw.
C3_Witness ==
    /\ finalTransferStatus /= Unassigned
    /\ finalTransferStatus /= Undef
    /\ finalTransferStatus.JobStatus = "Failed"
    /\ finalTransferStatus.ErrorMsg = Str("disk full")
    /\ facadeResult.t = "throw"

\* C4: after a failed version probe no copy is submitted and no status is fetched,
\* and azCopyTransfer never throws; it returns normally whether the operator takes
\* the download offer, dismisses the prompt, or the prompt fails.
C4_NoSubmissionWithoutEngine ==
    probed = "failed" =>
        /\ submissions = <<>>
        /\ fetchHandles = {}
        /\ nPollFetch = 0 /\ nFinalFetch = 0 /\ outstanding = 0
        /\ facadeResult.t /= "throw"
        /\ pc \in {"prompt", "openUrl", "done"}
        /\ pc = "done" => facadeResult = Return(Void)
        /\ answer \in {"undefined", "throws"} => pc = "done"

\* C4 witness: the prompt itself failed and azCopyTransfer returned normally.
C4_Witness ==
    /\ probed = "failed"
    /\ answer = "throws"
    /\ facadeResult = Return(Void)

\* C5: when the cancellation check fails inside the poller, azCopyTransfer and the
\* entry point above it end with that same error, no final status is fetched and
\* no transfer-failure error is raised.
C5_CancelPropagates ==
    checkFailedAt /= 0 =>
        /\ facadeResult = Throw(CancelError)
        /\ entryResult = Throw(CancelError)
        /\ nFinalFetch = 0
        /\ finalTransferStatus = Unassigned

\* C5 witness: uploadFiles ended with the cancellation error.
C5_Witness ==
    /\ checkFailedAt /= 0
    /\ call.entry = "uploadFiles"
    /\ entryResult = Throw(CancelError)


\* C6: the wait of a poll cycle is started only when the status just fetched is
\* not 'EndOfJob': once 'EndOfJob' has been fetched and reported, no wait is
\* started for that cycle and the poller returns without one.
C6_NoWaitAfterEndOfJob ==
    /\ firstEnd /= 0 => nSleep = firstEnd - 1
    /\ pollerResult.t = "return" => nSleepDone = nPollFetch - 1

\* C7: at most one status fetch is in flight at any time, a fetch is started only
\* when none is in flight, and a poller fetch that follows another one starts only
\* after the wait armed at the end of the previous fetch has run its full interval.
C7_SequentialPolls ==
    /\ [](outstanding \in {0, 1})
    /\ [][(nPollFetch' /= nPollFetch \/ nFinalFetch' /= nFinalFetch) =>
              outstanding = 0 /\ outstanding' = 1]_vars
    /\ [][nPollFetch' /= nPollFetch /\ nPollFetch >= 1 =>
              /\ sinceFetch >= PollIntervalMs
              /\ nSleepDone' = nPollFetch]_vars

\* C7 witness: a second poller fetch is in flight.
C7_Witness ==
    /\ pc = "fetch"
    /\ nPollFetch = 2
    /\ outstanding = 1

\* C8: with a check supplied, the step that starts a poller fetch is the step that
\* makes one cancellation check, every check is followed in the same step by the
\* fetch or by the rejection, and a poller that returns has made as many checks as
\* fetches.
C8_CheckBeforeEachFetch ==
    /\ [][call.hasCheck /\ nPollFetch' /= nPollFetch =>
              nPollFetch' = nPollFetch + 1 /\ nChecks' = nChecks + 1]_vars
    /\ [][nChecks' /= nChecks =>
              /\ nChecks' = nChecks + 1
              /\ nPollFetch' = nPollFetch + 1 \/ checkFailedAt' = nChecks']_vars
    /\ [](call.hasCheck =>
              nChecks = nPollFetch + (IF checkFailedAt /= 0 THEN 1 ELSE 0))
    /\ [](call.hasCheck /\ pollerResult.t = "return" => nChecks = nPollFetch)
    /\ [](~call.hasCheck => nChecks = 0)

\* C8 witness: with a check supplied the poller returned after two checked fetches.
C8_Witness ==
    /\ call.hasCheck
    /\ pollerResult.t = "return"
    /\ nPollFetch = 2
    /\ nChecks = 2

\* The counter the claim selects from a status, 0 when it or the status is absent.
ClaimedProgress(s, useWildCard) ==
    IF s = Undef THEN 0
    ELSE LET c == IF useWildCard THEN s.TransfersCompleted ELSE s.BytesOverWire
         IN  IF c = Undef THEN 0 ELSE c.v

\* C9: the value forwarded to the progress tracker on a poll is TransfersCompleted
\* of the fetched status for a wildcard source and BytesOverWire otherwise, 0 when
\* the status or that counter is absent; the other counter does not matter.
C9_ProgressCounterSelection ==
    /\ logReports.count >= 1 =>
           /\ finishedWork = Num(ClaimedProgress(status, call.useWildCard))
           /\ logReports.last = ClaimedProgress(status, call.useWildCard)
           /\ call.hasNotif => notifReports.last = ClaimedProgress(status, call.useWildCard)
    /\ pc = "sleep" /\ status /= Undef =>
           \A other \in CompletedCounts \cup ByteCounts :
               /\ call.useWildCard =>
                      FinishedWork([status EXCEPT !.BytesOverWire = other], TRUE) = finishedWork
               /\ ~call.useWildCard =>
                      FinishedWork([status EXCEPT !.TransfersCompleted = other], FALSE) = finishedWork

\* C9 witness: a wildcard transfer whose status carries both counters reported the
\* completed count.
C9_Witness ==
    /\ pc = "sleep"
    /\ call.useWildCard
    /\ status /= Undef
    /\ status.TransfersCompleted = Num(2)
    /\ status.BytesOverWire = Num(5)
    /\ logReports.last = 2

\* C10: a poller fetch answered with an absent status neither fails nor ends the
\* loop: 0 is reported for the cycle, the wait is armed, and when it is over the
\* next cycle begins (its cancellation check, then the next fetch); the poller
\* never returns on an absent status.
C10_AbsentStatusTolerated ==
    /\ [](pc = "sleep" /\ status = Undef =>
              /\ pollerResult = Pending
              /\ finishedWork = Num(0)
              /\ logReports = [last |-> 0, count |-> nPollFetch]
              /\ call.hasNotif => notifReports = [last |-> 0, count |-> nPollFetch]
              /\ nSleep = nPollFetch
              /\ timerLeft >= 0)
    /\ [][pc = "sleep" /\ status = Undef /\ pc' /= "sleep" =>
              /\ nSleepDone' = nSleepDone + 1
              /\ sinceFetch >= PollIntervalMs
              /\ nChecks' = nChecks + (IF call.hasCheck THEN 1 ELSE 0)
              /\ \/ nPollFetch' = nPollFetch + 1 /\ pc' = "fetch"
                 \/ canceled /\ checkFailedAt' = nChecks']_vars
    /\ [](pollerResult.t = "return" => status /= Undef)

\* C10 witness: after an absent status the poller is fetching again.
C10_Witness ==
    /\ pc = "fetch"
    /\ status = Undef
    /\ nPollFetch = 2
    /\ logReports = [last |-> 0, count |-> 1]

\* C12: every job submitted carries one direction, 'LocalBlob' when the destination
\* is a blob container and 'LocalFile' when it is a file share, together with
\* overwriteExisting "true", recursive true and followSymLinks true.
C12_DirectionMatchesDestination ==
    \A i \in 1..Len(submissions) :
        LET options == submissions[i].options
        IN  /\ options.fromTo = IF locs.dest = "BlobContainer" THEN "LocalBlob" ELSE "LocalFile"
            /\ options.overwriteExisting = "true"
            /\ options.recursive = TRUE
            /\ options.followSymLinks = TRUE

\* The calls the copy engine has received: submissions and status fetches.
EngineCalls == <<submissions, fetchHandles, nPollFetch, nFinalFetch>>

\* C13: once the cancellation check has thrown, the engine receives no further
\* call for that job: no status fetch (of the poller or of azCopyTransfer), no new
\* submission and nothing else; the call chain is finished and nothing is in flight.
C13_NoEngineCallAfterCancel ==
    /\ [](checkFailedAt /= 0 =>
            /\ pc = "done"
            /\ outstanding = 0
            /\ nFinalFetch = 0
            /\ Len(submissions) = 1)
    /\ [][checkFailedAt' /= 0 => EngineCalls' = EngineCalls]_vars

C13_Witness ==
    /\ checkFailedAt >= 2
    /\ nPollFetch >= 1
    /\ entryResult = Throw(CancelError)

\* C18: one invocation with the engine available submits exactly one job; every
\* status fetch uses the handle that submission returned; the poller fetches no
\* more once it has returned; azCopyTransfer makes exactly one further fetch after
\* the poller returned (k + 1 fetches for a poller that needed k), and none before.
C18_OneSubmissionOneHandle ==
    /\ [](/\ Len(submissions) <= 1
          /\ (probed = "ok" => Len(submissions) = 1)
          /\ (fetchHandles /= {} => fetchHandles = {issuedHandle} /\ issuedHandle \in JobIds)
          /\ (pollerResult.t = "return" =>
                  /\ pollerResult.value = issuedHandle
                  /\ nFinalFetch = 1
                  /\ nPollFetch >= 1
                  /\ Cardinality(fetchHandles) = 1)
          /\ (pollerResult.t /= "return" => nFinalFetch = 0))
    /\ [][pollerResult.t = "return" =>
              nPollFetch' = nPollFetch /\ nFinalFetch' = nFinalFetch]_vars

C18_Witness ==
    /\ pc = "done"
    /\ pollerResult = Return("job-2")
    /\ nPollFetch = 2
    /\ nFinalFetch = 1
    /\ fetchHandles = {"job-2"}

\* C19: when the submission or a status fetch is rejected, the entry point rejects
\* with that error, and no submission or status fetch is made afterwards.
C19_EngineFailurePropagates ==
    /\ [](engineFailures /= 0 =>
            /\ engineFailures = 1
            /\ pc = "done"
            /\ facadeResult = Throw(EngineError)
            /\ entryResult = Throw(EngineError)
            /\ outstanding = 0
            /\ logLines = 0)
    /\ [][engineFailures' /= 0 => EngineCalls' = EngineCalls]_vars

C19_Witness ==
    /\ engineFailures = 1
    /\ nPollFetch = 2
    /\ nFinalFetch = 0
    /\ entryResult = Throw(EngineError)

\* How often a call occurs in a sequence of calls.
Occurrences(calls, name) == Cardinality({i \in 1..Len(calls) : calls[i] = name})

\* C20: each poll cycle calls the log report exactly once and the notification
\* report exactly once if a sink was supplied and never otherwise, both with the
\* value selected in that cycle, the log report first and the wait last; without
\* a sink the notification report is never called.
C20_ReportsOncePerCycle ==
    /\ logReports.count = nSleep
    /\ notifReports.count = IF call.hasNotif THEN nSleep ELSE 0
    /\ (~call.hasNotif => notifReports = NoReports /\ tracker.notifEmits = 0)
    /\ nSleep >= 1 =>
          /\ logReports.last = finishedWork.v
          /\ (call.hasNotif => notifReports.last = finishedWork.v)
          /\ Occurrences(cycleCalls, "reportToOutputWindow") = 1
          /\ Occurrences(cycleCalls, "reportToNotification") = IF call.hasNotif THEN 1 ELSE 0
          /\ Occurrences(cycleCalls, "setTimeout") = 1
          /\ cycleCalls[1] = "reportToOutputWindow"
          /\ cycleCalls[Len(cycleCalls)] = "setTimeout"

C20_Witness ==
    /\ ~call.hasNotif
    /\ nSleep = 2
    /\ logReports.count = 2
    /\ notifReports.count = 0
    /\ entryResult = Return(Void)

\* C16: a value lower than the last one passed to a sink produces no emission to
\* that sink: no log line and no notification increment; so for the 0 that an
\* absent status yields after a positive value.
C16_RegressionIgnored ==
    [][/\ logReports'.count = logReports.count + 1 /\ logReports'.last < logReports.last
           => tracker'.logEmits = tracker.logEmits /\ tracker'.logLast = tracker.logLast
       /\ notifReports'.count = notifReports.count + 1 /\ notifReports'.last < notifReports.last
           => /\ tracker'.notifEmits = tracker.notifEmits
              /\ tracker'.notifSum = tracker.notifSum
              /\ tracker'.notifLast = tracker.notifLast]_vars

C16_Witness ==
    /\ status = Undef
    /\ finishedWork = Num(0)
    /\ logReports = [last |-> 0, count |-> 2]
    /\ notifReports = [last |-> 0, count |-> 2]
    /\ tracker.logLast > 0
    /\ tracker.notifSum > 0
    /\ tracker.logEmits = 1
    /\ tracker.notifEmits = 1

\* The glob suffix the variant that was called appends.
SuffixOf(entry) == IF entry = "uploadFilesLegacy" THEN "*" ELSE ".*"

\* C14: for every directory path the source descriptor is a wildcard local one
\* whose path is the input followed by the glob suffix, with a separator
\* immediately before the suffix; the constructor adds that separator only when
\* the input does not already end with one.
C14_DirectorySourceGlob ==
    call.entry \in UploadEntries =>
        LET input == locs.sourceFolder
            out == locs.src.path
            suffix == SuffixOf(call.entry)
            n == Len(input)
            hadSep == n >= 1 /\ SubSeq(input, n, n) = "/"
        IN  /\ locs.src.type = "Local"
            /\ locs.src.useWildCard = TRUE
            /\ SubSeq(out, 1, n) = input
            /\ SubSeq(out, Len(out) - Len(suffix) + 1, Len(out)) = suffix
            /\ SubSeq(out, Len(out) - Len(suffix), Len(out) - Len(suffix)) = "/"
            /\ Len(out) = n + Len(suffix) + (IF hadSep THEN 0 ELSE 1)

C14_Witness ==
    /\ call.entry = "uploadFiles"
    /\ locs.sourceFolder = "a./"
    /\ locs.src = [type |-> "Local", path |-> "a./.*", useWildCard |-> TRUE]

\* C15: for every destination path, the empty one included, the destination
\* descriptor is a remote one whose path is the input when the input starts with
\* '/', and the input with '/' prepended otherwise; its wildcard flag is false.
C15_DestinationLeadingSlash ==
    call.entry \in UploadEntries =>
        LET input == locs.destFolder
            out == locs.dst.path
            hadSlash == Len(input) >= 1 /\ SubSeq(input, 1, 1) = "/"
        IN  /\ locs.dst.type = "RemoteSas"
            /\ locs.dst.useWildCard = FALSE
            /\ SubSeq(out, 1, 1) = "/"
            /\ SubSeq(out, Len(out) - Len(input) + 1, Len(out)) = input
            /\ Len(out) = Len(input) + (IF hadSlash THEN 0 ELSE 1)

C15_Witness ==
    /\ call.entry = "uploadFiles"
    /\ locs.destFolder = ""
    /\ locs.dst.path = "/"
    /\ locs.dst.useWildCard = FALSE

\* C11 as stated: the scripted directory upload ends after 4 status fetches, with
\* increments summing to 10 at the notification sink, and succeeds.
C11_FourFetchesInAll ==
    pc = "done" =>
        /\ nPollFetch + nFinalFetch = Len(E2EScript)
        /\ tracker.notifSum = E2ETotal
        /\ entryResult = Return(Void)

\* C11 amended: the poller makes the 4 status fetches of the script and
\* azCopyTransfer a fifth one for the final status; the increments pushed to the
\* notification sink sum to 10 (and never exceed the count last fetched); the
\* upload succeeds when that fifth fetch yields the terminal status again.
C11_FourPollsAndFinalFetch ==
    /\ tracker.notifSum <= E2ETotal
    /\ (nSleep >= 1 => tracker.notifSum = E2EScript[nSleep].TransfersCompleted.v)
    /\ pc = "done" =>
          /\ nPollFetch = Len(E2EScript)
          /\ nFinalFetch = 1
          /\ nPollFetch + nFinalFetch = Len(E2EScript) + 1
          /\ tracker.notifSum = E2ETotal
          /\ tracker.notifLast = E2ETotal
          /\ finalTransferStatus = E2EScript[Len(E2EScript)]
          /\ entryResult = Return(Void)
          /\ logLines = 1

C11_Witness ==
    /\ pc = "done"
    /\ call.entry = "uploadFiles"
    /\ nPollFetch = 4
    /\ nFinalFetch = 1
    /\ tracker.notifSum = 10
    /\ tracker.notifEmits = 3
    /\ entryResult = Return(Void)

\* C17: with an engine that answers every call and reports 'EndOfJob' from some
\* fetch on, the poller, once the job is submitted, eventually returns the handle
\* unless a cancellation check fails; and as long as no fetch was answered
\* 'EndOfJob' and no check failed, the poller has not returned.
C17_PollerTerminates ==
    /\ (pc = "copy") ~> (pollerResult = Return(issuedHandle) \/ checkFailedAt /= 0)
    /\ [](checkFailedAt = 0 /\ firstEnd = 0 => pollerResult = Pending)
    /\ [](pollerResult.t = "throw" => checkFailedAt /= 0)

C17_Witness ==
    /\ pc = "done"
    /\ canceled
    /\ checkFailedAt = 0
    /\ nChecks = 2
    /\ firstEnd = 2
    /\ pollerResult = Return(issuedHandle)

\* C23: uploadFiles appends its 'Uploaded to ...' line only when a copy job was
\* submitted, a fetch of the poller was answered 'EndOfJob', and the final status
\* fetched by azCopyTransfer was present and not 'Failed'.
C23_UploadedOnlyAfterTransfer ==
    logLines /= 0 =>
        /\ Len(submissions) = 1
        /\ firstEnd /= 0
        /\ finalTransferStatus /= Unassigned
        /\ Truthy(finalTransferStatus)
        /\ finalTransferStatus.JobStatus /= "Failed"

\* C21: when the supplied check signals cancellation asynchronously (the promise
\* it returns rejects), the poller makes no status fetch from that check on and
\* ends rejected with the cancellation error.
C21_AsyncCheckPropagates ==
    asyncRejectedAt /= 0 =>
        /\ nPollFetch < asyncRejectedAt
        /\ (pc = "done" => pollerResult = Throw(CancelError))

\* C22 as stated: whenever cancellation is requested while the job is being
\* submitted, fetched or waited for, azCopyTransfer ends with the cancellation error.
C22_CancelInFlightAlwaysWins ==
    (canceled /\ pc \in {"copy", "fetch", "sleep"}) ~> (facadeResult = Throw(CancelError))

\* C22 amended: cancellation requested before the check of a cycle the poller
\* still starts ends azCopyTransfer with the cancellation error; cancellation
\* requested during the fetch that is answered 'EndOfJob', or during the wait
\* after it, is never checked: the poller returns the handle and azCopyTransfer
\* ends as its final status decides.
C22_CancelSeenAtNextCheck ==
    /\ (canceled /\ pc = "copy") ~> (facadeResult = Throw(CancelError))
    /\ (canceled /\ pc = "sleep" /\ LoopCond(status)) ~> (facadeResult = Throw(CancelError))
    /\ (canceled /\ pc \in {"fetch", "sleep"}) ~>
           \/ facadeResult = Throw(CancelError)
           \/ /\ firstEnd /= 0
              /\ checkFailedAt = 0
              /\ pollerResult = Return(issuedHandle)
              /\ finalTransferStatus /= Unassigned
              /\ facadeResult = Classify(finalTransferStatus)
    /\ [][firstEnd /= 0 => nChecks' = nChecks]_vars
    /\ [](canceled /\ facadeResult.t = "return" => firstEnd /= 0 /\ nChecks = firstEnd)

C22_Witness ==
    /\ pc = "done"
    /\ call.entry = "uploadFiles"
    /\ canceled
    /\ nPollFetch = 1
    /\ firstEnd = 1
    /\ facadeResult = Return(Void)
    /\ logLines = 1

\* C24: once a remote file name has been entered, uploadFile invokes at most one
\* of treeItem.uploadLocalFile and treeItem.createChild, and a failure of
\* uploadLocalFile reaches the caller of uploadFile with no createChild call.
C24_UploadOrCreateNotBoth ==
    /\ Len(uf.calls) <= 1
    /\ uf.uploadFailed =>
          /\ uf.calls = <<"uploadLocalFile">>
          /\ uf.result = Throw(UploadError)
====
